---- MODULE Spec2Model ----
(***************************************************************************)
(* Model of the virtual-memory subsystem of the maestro kernel:            *)
(*   src/src/memory/vmem/mod.rs  (trait VMem, new, try_clone, the write    *)
(*   lock, write_lock_wrap, switch, protect_kernel and the module tests).  *)
(*   src/src/syscall/munmap.rs   (the munmap system call),                 *)
(*   src/src/syscall/readv.rs    (read and do_readv),                      *)
(*   src/src/file/open_file.rs   (OpenFile: read, add_waiting_process).    *)
(*                                                                         *)
(* The architecture backend (x86::X86VMem) and the cpu / idt / memory /    *)
(* elf helpers are not part of the sources at hand; their models follow    *)
(* the trait documentation, the module tests and the design document.      *)
(*                                                                         *)
(* Addresses are byte addresses of an address space scaled down from 2^32  *)
(* to 2^8 bytes, with the proportions of the kernel's: pages of 4 bytes    *)
(* (for 4096) and the kernel region in the upper quarter, from PROCESS_END *)
(* = 192 (for 0xc0000000).  A page table is observed on two windows of     *)
(* pages: a few user pages from UserBase on, and a few pages of the kernel *)
(* region from PROCESS_END on.                                             *)
(***************************************************************************)
EXTENDS Integers, Sequences, FiniteSets, TLC

\* ------------------------------------------------------------------------
\* Program constants
\* ------------------------------------------------------------------------

\* memory::PAGE_SIZE (4096 in the kernel), scaled
PAGE_SIZE == 4

\* memory::PROCESS_END, the first address of the kernel region (0xc0000000 in
\* the kernel: three quarters of the address space), scaled
PROCESS_END == 192

\* The user address the module tests map (0x100000 in the kernel), scaled
UserBase == 16

\* Bit of cr0 that holds the write protection (1 << 16 in the source)
WP_BIT == 16

\* ------------------------------------------------------------------------
\* Bounds of the model
\* ------------------------------------------------------------------------

\* Number of observed user pages, from UserBase on
UserPages == 2

\* Number of observed pages of the kernel region, from PROCESS_END on
KernPages == 3

\* Number of physical frames map and map_range are handed, from UserBase on
PhysPages == 2

\* Largest page count handed to map_range and unmap_range
MaxRange == 2

\* Largest number of switch / write_lock_wrap calls nested in one another
MaxDepth == 2

\* Number of sections of the kernel image
NumSections == 2

\* ------------------------------------------------------------------------
\* Addresses, pages, entries
\* ------------------------------------------------------------------------

UserVirt == { UserBase + k * PAGE_SIZE : k \in 0..(UserPages - 1) }

KernVirt == { PROCESS_END + k * PAGE_SIZE : k \in 0..(KernPages - 1) }

\* Page-aligned virtual addresses whose translation the model observes
VPages == UserVirt \cup KernVirt

\* Page-aligned physical addresses handed to map and map_range
PhysIn == { UserBase + k * PAGE_SIZE : k \in 0..(PhysPages - 1) }

\* Offsets inside a page at which translate is observed
Offsets == {0, PAGE_SIZE - 1}

\* Every observed virtual address
Addrs == { v + o : v \in VPages, o \in Offsets }

\* util::down_align(addr, PAGE_SIZE)
down_align(addr) == addr - (addr % PAGE_SIZE)

\* math::ceil_div(n, PAGE_SIZE)
ceil_div(n, d) == (n + d - 1) \div d

\* Mapping flags of the backend, as the set of the bits that are set
FLAG_WRITE == "WRITE"

FLAG_USER == "USER"

\* Flag sets handed to map and map_range by callers
FlagsIn == { {}, {FLAG_WRITE} }

\* The value of Option::None for translate (addresses are >= 0)
None == -1

\* A page table entry
Unmapped == [present |-> FALSE, phys |-> 0, flags |-> {}]

Entry(physaddr, flags) == [present |-> TRUE, phys |-> physaddr, flags |-> flags]

\* A context none of whose observed pages is mapped
EmptyTable == [v \in VPages |-> Unmapped]

\* Names of the contexts (page directories) of the model
Ctxs == {"A", "B", "C"}

VARIABLES
  live,      \* the contexts that have been created
  vmems,     \* vmems[c]: the page table of context c
  last,      \* the call that has just returned, with its arguments and result
  cr3,       \* the context the hardware consults (the bound context)
  cr0,       \* the bits set in control register 0
  intEnabled,\* the interrupt flag of the core
  stack,     \* the frames of the running switch / write_lock_wrap calls
  halted,    \* the kernel has panicked
  exitRec,   \* the switch / write_lock_wrap call that has just been left
  bound,     \* the context of the most recent bind or restore
  sections,  \* the section headers of the kernel image (boot information)
  calls,     \* the map_range calls of the last protect_kernel
  ofile,     \* the open file description behind the process's descriptor
  ubuf,      \* ubuf[i]: the bytes last written to the user buffer of iovec i
  locks,     \* the locks the process holds
  rcall      \* the call of do_readv in progress or just returned

vars ==
  <<live, vmems, last, cr3, cr0, intEnabled, stack, halted, exitRec, bound,
    sections, calls, ofile, ubuf, locks, rcall>>

vmVars == <<live, vmems>>

cpuVars == <<cr3, cr0, intEnabled, stack, halted, exitRec, bound>>

protVars == <<sections, calls>>

ioVars == <<ofile, ubuf, locks, rcall>>


\* ------------------------------------------------------------------------
\* The paging backend (x86::X86VMem), per page table
\* ------------------------------------------------------------------------

\* Result of an operation returning AllocResult<()>: Ok or Err, and the table
Ok(pt) == [ok |-> TRUE, pt |-> pt]

Err(pt) == [ok |-> FALSE, pt |-> pt]

\* VMem::translate: the physical address of ptr, None when the page is unmapped
translate(pt, ptr) ==
  LET page == down_align(ptr)
  IN  IF page \in VPages /\ pt[page].present
        THEN pt[page].phys + (ptr % PAGE_SIZE)
        ELSE None

\* VMem::is_mapped
is_mapped(pt, ptr) == translate(pt, ptr) # None

\* Faulty variant: the kernel region is mapped from the first user page on
X86VMem_new_low ==
  [v \in VPages |-> IF v >= UserBase
                      THEN Entry(v % PROCESS_END, {FLAG_WRITE})
                      ELSE Unmapped]

\* Faulty variant: the kernel region is mapped onto itself, not at the offset
X86VMem_new_identity ==
  [v \in VPages |-> IF v >= PROCESS_END
                      THEN Entry(v, {FLAG_WRITE})
                      ELSE Unmapped]

\* The table X86VMem::new() builds: user addresses unmapped (test vmem_basic0),
\* the kernel region mapped at the fixed offset PROCESS_END (test vmem_basic1)
X86VMem_new ==
  [v \in VPages |-> IF v >= PROCESS_END
                      THEN Entry(v - PROCESS_END, {FLAG_WRITE})
                      ELSE Unmapped]

\* Faulty variant: the page is mapped onto itself, whatever physaddr is
map_identity(pt, physaddr, virtaddr, flags, allocOk) ==
  IF ~allocOk
    THEN Err(pt)
    ELSE Ok([pt EXCEPT ![virtaddr] = Entry(virtaddr, flags)])

\* Faulty variant: a page that is already mapped keeps its entry
map_keep(pt, physaddr, virtaddr, flags, allocOk) ==
  IF ~allocOk
    THEN Err(pt)
    ELSE IF pt[virtaddr].present
      THEN Ok(pt)
      ELSE Ok([pt EXCEPT ![virtaddr] = Entry(physaddr, flags)])

\* VMem::map: installs or overwrites the entry of one page; allocOk tells
\* whether the frame allocator serves the table the page may need
map(pt, physaddr, virtaddr, flags, allocOk) ==
  IF ~allocOk
    THEN Err(pt)
    ELSE Ok([pt EXCEPT ![virtaddr] = Entry(physaddr, flags)])

\* Faulty variant: the entry is cleared of its flags but stays present
unmap_keep(pt, virtaddr, allocOk) ==
  IF ~allocOk
    THEN Err(pt)
    ELSE Ok([pt EXCEPT ![virtaddr].flags = {}])

\* VMem::unmap: removes the entry of one page
unmap(pt, virtaddr, allocOk) ==
  IF ~allocOk
    THEN Err(pt)
    ELSE Ok([pt EXCEPT ![virtaddr] = Unmapped])

\* The loop of VMem::map_range from page i on; the allocator fails at page
\* failAt (failAt = pages: it never fails)
RECURSIVE map_range_loop(_, _, _, _, _, _, _)
map_range_loop(pt, physaddr, virtaddr, pages, flags, failAt, i) ==
  IF i >= pages
    THEN Ok(pt)
    ELSE LET r == map(pt, physaddr + i * PAGE_SIZE, virtaddr + i * PAGE_SIZE,
                      flags, i # failAt)
         IN  IF ~r.ok
               THEN Err(r.pt)
               ELSE map_range_loop(r.pt, physaddr, virtaddr, pages, flags, failAt, i + 1)

\* Faulty variant: every page of the range is mapped to the first frame
map_range_same_frame(pt, physaddr, virtaddr, pages, flags, failAt) ==
  IF failAt < pages
    THEN Err([v \in VPages |->
               IF v >= virtaddr /\ v < virtaddr + failAt * PAGE_SIZE
                 THEN Entry(physaddr, flags) ELSE pt[v]])
    ELSE Ok([v \in VPages |->
               IF v >= virtaddr /\ v < virtaddr + pages * PAGE_SIZE
                 THEN Entry(physaddr, flags) ELSE pt[v]])

\* Faulty variant: a failed range is rolled back
map_range_rollback(pt, physaddr, virtaddr, pages, flags, failAt) ==
  LET r == map_range_loop(pt, physaddr, virtaddr, pages, flags, failAt, 0)
  IN  IF r.ok THEN r ELSE Err(pt)

\* VMem::map_range
map_range(pt, physaddr, virtaddr, pages, flags, failAt) ==
  map_range_loop(pt, physaddr, virtaddr, pages, flags, failAt, 0)

\* The loop of VMem::unmap_range from page i on
RECURSIVE unmap_range_loop(_, _, _, _, _)
unmap_range_loop(pt, virtaddr, pages, failAt, i) ==
  IF i >= pages
    THEN Ok(pt)
    ELSE LET r == unmap(pt, virtaddr + i * PAGE_SIZE, i # failAt)
         IN  IF ~r.ok
               THEN Err(r.pt)
               ELSE unmap_range_loop(r.pt, virtaddr, pages, failAt, i + 1)

\* VMem::unmap_range
unmap_range(pt, virtaddr, pages, failAt) ==
  unmap_range_loop(pt, virtaddr, pages, failAt, 0)

\* ------------------------------------------------------------------------
\* Calls on a context
\* ------------------------------------------------------------------------

\* No call has returned since the caller last went on
NoCall ==
  [op |-> "none", ctx |-> "A", phys |-> 0, virt |-> 0, pages |-> 0,
   flags |-> {}, failAt |-> 0, ok |-> TRUE, pre |-> EmptyTable]

\* The record of a call that has returned
Call(op, c, physaddr, virtaddr, pages, flags, failAt, ok, pre) ==
  [op |-> op, ctx |-> c, phys |-> physaddr, virt |-> virtaddr, pages |-> pages,
   flags |-> flags, failAt |-> failAt, ok |-> ok, pre |-> pre]

Idle == last.op = "none"

\* Page counts whose range from virtaddr stays on the observed pages
RangesAt(virtaddr) ==
  { n \in 0..MaxRange :
      \A k \in 0..(n - 1) : virtaddr + k * PAGE_SIZE \in VPages }

\* vmem::new(): Ok(Box::new(x86::X86VMem::new()?)?); either allocation may fail
new(c, backendOk, boxOk) ==
  /\ Idle
  /\ c \notin live
  /\ IF backendOk /\ boxOk
       THEN /\ live' = live \cup {c}
            /\ vmems' = [vmems EXCEPT ![c] = X86VMem_new]
       ELSE UNCHANGED vmVars
  /\ last' = Call("new", c, 0, 0, 0, {}, 0, backendOk /\ boxOk, vmems[c])

\* A call of map on context c
Map(c, physaddr, virtaddr, flags, allocOk) ==
  /\ Idle
  /\ c \in live
  /\ LET r == map(vmems[c], physaddr, virtaddr, flags, allocOk)
     IN  /\ vmems' = [vmems EXCEPT ![c] = r.pt]
         /\ last' = Call("map", c, physaddr, virtaddr, 1, flags, 0, r.ok, vmems[c])
  /\ UNCHANGED live

\* A call of map_range on context c
MapRange(c, physaddr, virtaddr, pages, flags, failAt) ==
  /\ Idle
  /\ c \in live
  /\ LET r == map_range(vmems[c], physaddr, virtaddr, pages, flags, failAt)
     IN  /\ vmems' = [vmems EXCEPT ![c] = r.pt]
         /\ last' = Call("map_range", c, physaddr, virtaddr, pages, flags, failAt,
                         r.ok, vmems[c])
  /\ UNCHANGED live

\* A call of unmap on context c
Unmap(c, virtaddr, allocOk) ==
  /\ Idle
  /\ c \in live
  /\ LET r == unmap(vmems[c], virtaddr, allocOk)
     IN  /\ vmems' = [vmems EXCEPT ![c] = r.pt]
         /\ last' = Call("unmap", c, 0, virtaddr, 1, {}, 0, r.ok, vmems[c])
  /\ UNCHANGED live

\* A call of unmap_range on context c
UnmapRange(c, virtaddr, pages, failAt) ==
  /\ Idle
  /\ c \in live
  /\ LET r == unmap_range(vmems[c], virtaddr, pages, failAt)
     IN  /\ vmems' = [vmems EXCEPT ![c] = r.pt]
         /\ last' = Call("unmap_range", c, 0, virtaddr, pages, {}, failAt,
                         r.ok, vmems[c])
  /\ UNCHANGED live

\* The caller takes the result of the call and goes on
Resume ==
  /\ ~Idle
  /\ last' = NoCall
  /\ UNCHANGED vmVars

\* ------------------------------------------------------------------------
\* protect_kernel
\* ------------------------------------------------------------------------

\* elf::SHF_WRITE, as the name of the bit of sh_flags
SHF_WRITE == "SHF_WRITE"

\* memory::kern_to_phys: the physical address of a kernel address
kern_to_phys(addr) == IF addr >= PROCESS_END THEN addr - PROCESS_END ELSE addr

\* memory::kern_to_virt: the kernel region address of a kernel address
kern_to_virt(addr) == IF addr < PROCESS_END THEN addr + PROCESS_END ELSE addr

\* Faulty variant: a section is skipped only when it is writable and misaligned
skips_both(section) ==
  SHF_WRITE \in section.sh_flags /\ section.sh_addralign # PAGE_SIZE

\* The closure of protect_kernel skips the section (returns true at once):
\* section.sh_flags & SHF_WRITE != 0 || section.sh_addralign != PAGE_SIZE
skips(section) ==
  SHF_WRITE \in section.sh_flags \/ section.sh_addralign # PAGE_SIZE

\* The map_range call the closure of protect_kernel makes for a section
protect_call(section) ==
  [phys |-> kern_to_phys(section.sh_addr),
   virt |-> kern_to_virt(section.sh_addr),
   pages |-> ceil_div(section.sh_size, PAGE_SIZE),
   flags |-> {FLAG_USER}]

\* No allocation fails during protect_kernel
NoFail == [sec |-> 0, page |-> 0]

\* Faulty variant: after a map_range has failed, the later sections are still
\* processed
RECURSIVE protect_loop_continue(_, _, _, _)
protect_loop_continue(pt, log, fail, i) ==
  IF i > Len(sections)
    THEN [ok |-> fail.sec = 0, pt |-> pt, calls |-> log]
    ELSE IF skips(sections[i])
      THEN protect_loop_continue(pt, log, fail, i + 1)
      ELSE LET call == protect_call(sections[i])
               failAt == IF fail.sec = i /\ fail.page < call.pages
                           THEN fail.page ELSE call.pages
               r == map_range(pt, call.phys, call.virt, call.pages, call.flags, failAt)
           IN  protect_loop_continue(r.pt, Append(log, call), fail, i + 1)

\* elf::foreach_sections with the closure of protect_kernel, from section i
\* on: res, the table and the map_range calls made.  The allocator fails in
\* the map_range of section fail.sec, at page fail.page.
RECURSIVE protect_loop(_, _, _, _)
protect_loop(pt, log, fail, i) ==
  IF i > Len(sections)
    THEN [ok |-> TRUE, pt |-> pt, calls |-> log]
    ELSE IF skips(sections[i])
      THEN protect_loop(pt, log, fail, i + 1)
      ELSE LET call == protect_call(sections[i])
               failAt == IF fail.sec = i /\ fail.page < call.pages
                           THEN fail.page ELSE call.pages
               r == map_range(pt, call.phys, call.virt, call.pages, call.flags, failAt)
           IN  IF ~r.ok
                 THEN [ok |-> FALSE, pt |-> r.pt, calls |-> Append(log, call)]
                 ELSE protect_loop(r.pt, Append(log, call), fail, i + 1)

\* VMem::protect_kernel
protect_kernel(pt, fail) == protect_loop(pt, <<>>, fail, 1)

\* A call of protect_kernel on context c
ProtectKernel(c, fail) ==
  /\ Idle
  /\ c \in live
  /\ LET r == protect_kernel(vmems[c], fail)
     IN  /\ vmems' = [vmems EXCEPT ![c] = r.pt]
         /\ calls' = r.calls
         /\ last' = Call("protect_kernel", c, 0, 0, fail.sec, {}, fail.page,
                         r.ok, vmems[c])
  /\ UNCHANGED <<live, sections>>

\* ------------------------------------------------------------------------
\* try_clone
\* ------------------------------------------------------------------------

\* The context try_clone is called on, and the name the clone gets
CloneSrc == "A"

CloneDst == "B"

\* x86::X86VMem::try_clone: a copy of the table, or an allocation error with
\* nothing left of the copy
X86VMem_try_clone(pt, backendOk) == IF backendOk THEN Ok(pt) ELSE Err(EmptyTable)

\* Faulty variant: a failure of Box::new is not propagated
try_clone_unboxed(pt, backendOk, boxOk) == X86VMem_try_clone(pt, backendOk)

\* vmem::try_clone: Ok(Box::new(vmem.try_clone()?)?); when Box::new fails, the
\* copy it was handed is dropped
try_clone(pt, backendOk, boxOk) ==
  LET r == X86VMem_try_clone(pt, backendOk)
  IN  IF ~r.ok THEN r
      ELSE IF ~boxOk THEN Err(EmptyTable)
      ELSE r

\* A call of try_clone on context c; the clone is context d.  The record of
\* the call keeps which allocation failed: 0 none, 1 the backend's, 2 the Box
TryClone(c, d, backendOk, boxOk) ==
  /\ Idle
  /\ c \in live
  /\ d \notin live
  /\ LET r == try_clone(vmems[c], backendOk, boxOk)
     IN  /\ live' = IF r.ok THEN live \cup {d} ELSE live
         /\ vmems' = [vmems EXCEPT ![d] = r.pt]
         /\ last' = Call("try_clone", d, 0, 0, 0, {},
                         IF ~backendOk THEN 1 ELSE IF ~boxOk THEN 2 ELSE 0,
                         r.ok, vmems[c])

\* ------------------------------------------------------------------------
\* The core: control registers, interrupt flag, switch and write_lock_wrap
\* ------------------------------------------------------------------------

\* The bits of cr0 the model keeps: PE, WP and PG
Cr0Bits == {0, WP_BIT, 31}

\* cpu::cr0_set(1 << bit)
cr0_set(reg, bit) == reg \cup {bit}

\* cpu::cr0_clear(1 << bit)
cr0_clear(reg, bit) == reg \ {bit}

\* vmem::is_write_locked: (cr0 & (1 << 16)) != 0
is_write_locked(reg) == WP_BIT \in reg

\* Faulty variant: the lock is set whatever the argument is
set_write_lock_always(reg, lock) == cr0_set(reg, WP_BIT)

\* vmem::set_write_lock: the value of cr0 it leaves
set_write_lock(reg, lock) ==
  IF lock THEN cr0_set(reg, WP_BIT) ELSE cr0_clear(reg, WP_BIT)

\* VMem::is_bound: the context is the one cr3 designates
is_bound(c) == cr3 = c

\* The values a closure may return
Values == {"u", "v"}

\* No value: the closure has not returned
NoValue == "none"

\* No call has been left since the last step outside of the calls
NoExit ==
  [op |-> "none", vmem |-> "A", fast |-> FALSE, dirty |-> FALSE,
   before |-> [cr3 |-> "A", cr0 |-> {}, int |-> FALSE], frames |-> <<>>,
   calls |-> 0, writes |-> 0, fret |-> NoValue, ret |-> NoValue]

\* The record of the call whose frame fr has just been left
Exit(op, fr, frames) ==
  [op |-> op, vmem |-> fr.vmem, fast |-> fr.fast, dirty |-> fr.dirty,
   before |-> fr.before, frames |-> frames,
   calls |-> fr.calls, writes |-> fr.writes, fret |-> fr.fret, ret |-> fr.ret]

\* The state of the core a call starts in
Before == [cr3 |-> cr3, cr0 |-> cr0, int |-> intEnabled]

\* Faulty variant: cr3 is read after the bind, not before
SwitchFrame_late(c) ==
  [fn |-> "switch", vmem |-> c, fast |-> is_bound(c),
   cr3 |-> c,
   int |-> intEnabled, lock |-> FALSE,
   before |-> Before, dirty |-> FALSE,
   calls |-> 1, writes |-> IF is_bound(c) THEN 0 ELSE 1,
   fret |-> NoValue, ret |-> NoValue]

\* The frame of a call of switch: the context, the path taken, the locals
\* (cr3 read by cpu::cr3_get, interrupt state kept by wrap_disable_interrupts),
\* and what the call has done so far: calls of the closure (f() occurs once
\* on each path), writes of cr3 (vmem.bind() on the path that binds), the
\* value the closure returned and the value of the call
SwitchFrame(c) ==
  [fn |-> "switch", vmem |-> c, fast |-> is_bound(c),
   cr3 |-> IF is_bound(c) THEN c ELSE cr3,
   int |-> intEnabled, lock |-> FALSE,
   before |-> Before, dirty |-> FALSE,
   calls |-> 1, writes |-> IF is_bound(c) THEN 0 ELSE 1,
   fret |-> NoValue, ret |-> NoValue]

\* The frame of a call of write_lock_wrap: the local lock = is_write_locked()
WlwFrame ==
  [fn |-> "write_lock_wrap", vmem |-> "A", fast |-> FALSE, cr3 |-> "A",
   int |-> FALSE, lock |-> is_write_locked(cr0),
   before |-> Before, dirty |-> FALSE,
   calls |-> 1, writes |-> 0, fret |-> NoValue, ret |-> NoValue]

Top == stack[Len(stack)]

Pop == SubSeq(stack, 1, Len(stack) - 1)

Running == ~halted

\* The core may start a call: it runs, and the nesting stays within the bound
CanCall == Running /\ Len(stack) < MaxDepth

\* Faulty variant: the closure is called without wrap_disable_interrupts
SwitchEnter_enabled(c) ==
  /\ CanCall
  /\ stack' = Append(stack, SwitchFrame(c))
  /\ intEnabled' = intEnabled
  /\ cr3' = IF is_bound(c) THEN cr3 ELSE c
  /\ bound' = IF is_bound(c) THEN bound ELSE c
  /\ exitRec' = NoExit
  /\ UNCHANGED <<cr0, halted>>

\* Faulty variant: the closure is called before the context is bound
SwitchEnter_unbound(c) ==
  /\ CanCall
  /\ stack' = Append(stack, SwitchFrame(c))
  /\ intEnabled' = FALSE
  /\ cr3' = cr3
  /\ bound' = bound
  /\ exitRec' = NoExit
  /\ UNCHANGED <<cr0, halted>>

\* switch, up to the call of the closure: interrupts are disabled, and a
\* context that is not bound is bound after cr3 is read
SwitchEnter(c) ==
  /\ CanCall
  /\ stack' = Append(stack, SwitchFrame(c))
  /\ intEnabled' = FALSE
  /\ cr3' = IF is_bound(c) THEN cr3 ELSE c
  /\ bound' = IF is_bound(c) THEN bound ELSE c
  /\ exitRec' = NoExit
  /\ UNCHANGED <<cr0, halted>>

\* Faulty variant: the previous context is not restored
switch_restore_none(fr) == cr3

\* Faulty variant: the context to restore is kept in one place for all the
\* calls in progress, so every return restores what the outermost call saw
switch_restore_outermost(fr) == IF fr.fast THEN cr3 ELSE stack[1].before.cr3

\* switch, after the closure: the context bound when the closure has returned
\* on the fast path, the context read before the bind on the other path
\* (x86::paging_enable(cr3))
switch_restore(fr) == IF fr.fast THEN cr3 ELSE fr.cr3

\* Faulty variant: the value of the closure is dropped on the path that binds
switch_result_dropped(fr, v) == IF fr.fast THEN v ELSE NoValue

\* switch: its value when the closure has returned v (f() is the value of the
\* fast path, result the value of the other)
switch_result(fr, v) == v

\* The frame of a switch whose closure has returned v, when the call returns
SwitchReturned(fr, v) ==
  [fr EXCEPT !.fret = v, !.ret = switch_result(fr, v),
             !.writes = IF fr.fast THEN @ ELSE @ + 1]

\* switch, from the return of the closure (with value v) on: the previous
\* context is restored, then wrap_disable_interrupts restores the interrupt
\* state
SwitchExit(v) ==
  /\ Running
  /\ stack # <<>>
  /\ Top.fn = "switch"
  /\ cr3' = switch_restore(Top)
  /\ intEnabled' = Top.int
  /\ stack' = Pop
  /\ bound' = IF Top.fast THEN bound ELSE Top.before.cr3
  /\ exitRec' = Exit("switch", SwitchReturned(Top, v), <<>>)
  /\ UNCHANGED <<cr0, halted>>

\* write_lock_wrap, up to the call of the closure
WlwEnter ==
  /\ CanCall
  /\ stack' = Append(stack, WlwFrame)
  /\ cr0' = set_write_lock(cr0, FALSE)
  /\ exitRec' = NoExit
  /\ UNCHANGED <<cr3, intEnabled, halted, bound>>

\* write_lock_wrap, from the return of the closure on: set_write_lock(lock)
WlwExit ==
  /\ Running
  /\ stack # <<>>
  /\ Top.fn = "write_lock_wrap"
  /\ cr0' = set_write_lock(cr0, Top.lock)
  /\ stack' = Pop
  /\ exitRec' = Exit("write_lock_wrap", Top, <<>>)
  /\ UNCHANGED <<cr3, intEnabled, halted, bound>>

\* VMem::bind, called by the kernel or by a closure; a closure that calls it
\* changes the bound context under every call it runs in
Bind(c) ==
  /\ Running
  /\ cr3' = c
  /\ bound' = c
  /\ stack' = [i \in 1..Len(stack) |-> [stack[i] EXCEPT !.dirty = TRUE]]
  /\ exitRec' = NoExit
  /\ UNCHANGED <<cr0, intEnabled, halted>>

\* vmem::set_write_lock, called by the kernel or by a closure
SetWriteLock(lock) ==
  /\ Running
  /\ cr0' = set_write_lock(cr0, lock)
  /\ exitRec' = NoExit
  /\ UNCHANGED <<cr3, intEnabled, stack, halted, bound>>

\* A timer interruption while interruptions are enabled: the scheduler resumes
\* a process, whose context it binds
Preempt(c) ==
  /\ Running
  /\ intEnabled
  /\ cr3' = c
  /\ bound' = c
  /\ exitRec' = NoExit
  /\ UNCHANGED <<cr0, intEnabled, stack, halted>>

\* Faulty variant: leaving the calls by a panic restores the interrupt flag of
\* the outermost call, as a guard dropped on the way out would
Panic_restoring ==
  /\ Running
  /\ stack # <<>>
  /\ halted' = TRUE
  /\ stack' = <<>>
  /\ intEnabled' = stack[1].before.int
  /\ exitRec' = Exit("panic", Top, stack)
  /\ UNCHANGED <<cr3, cr0, bound>>

\* The closure of the innermost call panics: no function has anything that
\* runs when it is left that way, and the kernel stops
Panic ==
  /\ Running
  /\ stack # <<>>
  /\ halted' = TRUE
  /\ stack' = <<>>
  /\ exitRec' = Exit("panic", Top, stack)
  /\ UNCHANGED <<cr3, cr0, intEnabled, bound>>

\* ------------------------------------------------------------------------
\* The open file and do_readv, at rest
\* ------------------------------------------------------------------------

\* Option<isize>: None, and Some(o)
NoneOff == [some |-> FALSE, val |-> 0]

SomeOff(o) == [some |-> TRUE, val |-> o]

\* An open file description nothing has read from: OpenFile::new sets
\* curr_off to 0; content is the FileContent of the file it points to
NewOpenFile(flags, content) ==
  [curr_off |-> 0, flags |-> flags, content |-> content, waiting |-> {}]

\* No value yet: the call has not returned
NoRet == [kind |-> "none", errno |-> "", val |-> 0]

\* The record of a pass of the helper read that has not run
NoRead == [ret |-> NoRet, total_len |-> 0, sum |-> 0, peak |-> 0,
           reads |-> <<>>, of |-> NewOpenFile({}, "Regular"), ubuf |-> <<>>]

\* No call of do_readv is in progress
NoReadv ==
  [pc |-> "idle", fd |-> 0, iov |-> <<>>, iovcnt |-> 0, offset |-> NoneOff,
   start_off |-> 0, update_off |-> FALSE, prev_off |-> 0, len |-> 0,
   flags |-> {}, passes |-> 0, ret |-> NoRet, rd |-> NoRead,
   pre |-> [curr_off |-> 0, ubuf |-> <<>>]]

\* No file is read in the specifications of the memory contexts
InitIo ==
  /\ ofile = NewOpenFile({}, "Regular")
  /\ ubuf = <<>>
  /\ locks = {}
  /\ rcall = NoReadv

\* ------------------------------------------------------------------------
\* Specification of the calls on one context
\* ------------------------------------------------------------------------

InitCpu ==
  /\ cr3 = "A"
  /\ cr0 = Cr0Bits
  /\ intEnabled = TRUE
  /\ stack = <<>>
  /\ halted = FALSE
  /\ exitRec = NoExit
  /\ bound = cr3

InitProt ==
  /\ sections = <<>>
  /\ calls = <<>>

InitVm ==
  /\ live = {}
  /\ vmems = [c \in Ctxs |-> EmptyTable]
  /\ last = NoCall
  /\ InitCpu
  /\ InitProt
  /\ InitIo

VmNew ==
  /\ \E backendOk, boxOk \in BOOLEAN : new("A", backendOk, boxOk)
  /\ UNCHANGED <<cpuVars, protVars, ioVars>>

VmMap ==
  /\ \E p \in PhysIn, v \in UserVirt, f \in FlagsIn, allocOk \in BOOLEAN :
       Map("A", p, v, f, allocOk)
  /\ UNCHANGED <<cpuVars, protVars, ioVars>>

VmMapRange ==
  /\ \E p \in PhysIn, v \in UserVirt, f \in FlagsIn :
       \E n \in RangesAt(v) : \E failAt \in 0..n :
         MapRange("A", p, v, n, f, failAt)
  /\ UNCHANGED <<cpuVars, protVars, ioVars>>

VmUnmap ==
  /\ \E v \in UserVirt, allocOk \in BOOLEAN : Unmap("A", v, allocOk)
  /\ UNCHANGED <<cpuVars, protVars, ioVars>>

VmUnmapRange ==
  /\ \E v \in UserVirt : \E n \in RangesAt(v) : \E failAt \in 0..n :
       UnmapRange("A", v, n, failAt)
  /\ UNCHANGED <<cpuVars, protVars, ioVars>>

VmResume ==
  /\ Resume
  /\ UNCHANGED <<cpuVars, protVars, ioVars>>

NextVm ==
  \/ VmNew
  \/ VmMap
  \/ VmMapRange
  \/ VmUnmap
  \/ VmUnmapRange
  \/ VmResume

SpecVm == InitVm /\ [][NextVm]_vars


\* ------------------------------------------------------------------------
\* Properties of the calls on one context
\* ------------------------------------------------------------------------

\* The table of the context of the call that has just returned
Post == vmems[last.ctx]

\* The pages of the range of the call that has just returned
RangePages == { last.virt + k * PAGE_SIZE : k \in 0..(last.pages - 1) }

\* The pages of a table that are mapped
MappedPages(pt) == { v \in VPages : pt[v].present }

\* translate gives the same result in both tables at every observed address
\* outside the given pages
SameOutside(pt1, pt2, pages) ==
  \A a \in Addrs :
    down_align(a) \notin pages => translate(pt1, a) = translate(pt2, a)

\* C3: after map(phys, virt, flags) returns Ok, translate(virt) is phys, and
\* translate of every address outside the page of virt gives what it gave
\* before the call.
C3_MapTranslates ==
  (last.op = "map" /\ last.ok) =>
    /\ translate(Post, last.virt) = last.phys
    /\ SameOutside(Post, last.pre, {last.virt})

\* A map returned Ok while another user page was mapped
C3_Witness ==
  /\ last.op = "map"
  /\ last.ok
  /\ translate(Post, last.virt) = last.phys
  /\ \E v \in UserVirt : v # last.virt /\ is_mapped(last.pre, v)

\* C4: after unmap(virt) returns Ok on a mapped page, translate(virt) is None
\* and the translation of every other page is unchanged; when virt was the
\* only user mapping, every user address translates to None again.
C4_UnmapRemoves ==
  (last.op = "unmap" /\ last.ok /\ is_mapped(last.pre, last.virt)) =>
    /\ \A o \in Offsets : translate(Post, last.virt + o) = None
    /\ SameOutside(Post, last.pre, {last.virt})
    /\ (MappedPages(last.pre) \cap UserVirt = {last.virt}) =>
         \A a \in Addrs : a < PROCESS_END => translate(Post, a) = None

\* An unmap returned Ok on a mapped page while another user page was mapped
C4_Witness ==
  /\ last.op = "unmap"
  /\ last.ok
  /\ is_mapped(last.pre, last.virt)
  /\ ~is_mapped(Post, last.virt)
  /\ \E v \in UserVirt : v # last.virt /\ is_mapped(Post, v)

\* C5: mapping replaces, it never adds a second entry: after a map or a
\* map_range that returned Ok, every page of the range translates to the new
\* physical address, also when it was mapped before, and the mapped pages are
\* those mapped before together with the pages of the range.
C5_RemapReplaces ==
  (last.op \in {"map", "map_range"} /\ last.ok) =>
    /\ \A k \in 0..(last.pages - 1) :
         translate(Post, last.virt + k * PAGE_SIZE) = last.phys + k * PAGE_SIZE
    /\ MappedPages(Post) = MappedPages(last.pre) \cup RangePages

\* A page mapped to one physical address has been mapped to another one
C5_Witness ==
  /\ last.op = "map"
  /\ last.ok
  /\ is_mapped(last.pre, last.virt)
  /\ translate(last.pre, last.virt) # last.phys
  /\ translate(Post, last.virt) = last.phys

\* C6 as stated: in a context new() has just created, translate gives None
\* for every virtual address.
C6_FreshAllUnmapped ==
  (last.op = "new" /\ last.ok) =>
    \A a \in Addrs : translate(Post, a) = None

\* C6 amended: in a context new() has just created, translate gives None for
\* every virtual address below PROCESS_END.
C6_FreshUserUnmapped ==
  (last.op = "new" /\ last.ok) =>
    \A a \in Addrs : a < PROCESS_END => translate(Post, a) = None

\* new() has just created a context
C6_Witness ==
  /\ last.op = "new"
  /\ last.ok
  /\ last.ctx \in live
  /\ \A v \in UserVirt : ~is_mapped(Post, v)

\* C7: in a context new() has just created, every page-aligned address
\* PROCESS_END + i of the kernel region translates to the physical address i.
C7_FreshKernelMapped ==
  (last.op = "new" /\ last.ok) =>
    \A v \in KernVirt :
      /\ is_mapped(Post, v)
      /\ translate(Post, v) = v - PROCESS_END

\* new() has just created a context whose second kernel page is mapped
C7_Witness ==
  /\ last.op = "new"
  /\ last.ok
  /\ PROCESS_END + PAGE_SIZE \in KernVirt
  /\ translate(Post, PROCESS_END + PAGE_SIZE) = PAGE_SIZE

\* The table after the n sequential calls
\* map(phys + k * PAGE_SIZE, virt + k * PAGE_SIZE, flags), k = 0..n-1
RECURSIVE SeqMaps(_, _, _, _, _)
SeqMaps(pt, physaddr, virtaddr, n, flags) ==
  IF n = 0
    THEN pt
    ELSE map(SeqMaps(pt, physaddr, virtaddr, n - 1, flags),
             physaddr + (n - 1) * PAGE_SIZE, virtaddr + (n - 1) * PAGE_SIZE,
             flags, TRUE).pt

\* C8: when no allocation fails, map_range(phys, virt, n, flags) leaves the
\* context with the translations the n sequential map calls leave.
C8_MapRangeIsSeqMaps ==
  (last.op = "map_range" /\ last.ok) =>
    \A a \in Addrs :
      translate(Post, a) =
        translate(SeqMaps(last.pre, last.phys, last.virt, last.pages, last.flags), a)

\* A map_range over two pages returned Ok
C8_Witness ==
  /\ last.op = "map_range"
  /\ last.ok
  /\ last.pages >= 2
  /\ translate(Post, last.virt + PAGE_SIZE) = last.phys + PAGE_SIZE

\* C9: a map_range or unmap_range whose allocation fails at page k returns
\* Err, keeps what it did to the pages 0..k-1 and leaves the pages k..n-1 (and
\* every page outside the range) with their previous translations.
C9_PartialRangeKept ==
  (last.op \in {"map_range", "unmap_range"}) =>
    /\ last.ok = (last.failAt >= last.pages)
    /\ ~last.ok =>
         /\ \A k \in 0..(last.failAt - 1) : \A o \in Offsets :
              translate(Post, last.virt + k * PAGE_SIZE + o) =
                IF last.op = "map_range"
                  THEN last.phys + k * PAGE_SIZE + o
                  ELSE None
         /\ SameOutside(Post, last.pre,
              { last.virt + k * PAGE_SIZE : k \in 0..(last.failAt - 1) })

\* A map_range failed at its second page and its first page stays remapped
C9_Witness ==
  /\ last.op = "map_range"
  /\ ~last.ok
  /\ last.failAt = 1
  /\ translate(last.pre, last.virt) # last.phys
  /\ translate(Post, last.virt) = last.phys

\* An unmap_range failed at its second page and its first page stays unmapped
C9_WitnessUnmap ==
  /\ last.op = "unmap_range"
  /\ ~last.ok
  /\ last.failAt = 1
  /\ is_mapped(last.pre, last.virt)
  /\ ~is_mapped(Post, last.virt)


\* ------------------------------------------------------------------------
\* Specification of the core: switch, write_lock_wrap and their closures
\* ------------------------------------------------------------------------

InitSwitch ==
  /\ live = Ctxs
  /\ vmems = [c \in Ctxs |-> X86VMem_new]
  /\ last = NoCall
  /\ cr3 \in Ctxs
  /\ cr0 \in { {0, 31}, Cr0Bits }
  /\ intEnabled \in BOOLEAN
  /\ stack = <<>>
  /\ halted = FALSE
  /\ exitRec = NoExit
  /\ bound = cr3
  /\ InitProt
  /\ InitIo

CpuSwitchEnter ==
  /\ \E c \in Ctxs : SwitchEnter(c)
  /\ UNCHANGED <<vmVars, last, protVars, ioVars>>

CpuSwitchExit ==
  /\ \E v \in Values : SwitchExit(v)
  /\ UNCHANGED <<vmVars, last, protVars, ioVars>>

CpuWlwEnter ==
  /\ WlwEnter
  /\ UNCHANGED <<vmVars, last, protVars, ioVars>>

CpuWlwExit ==
  /\ WlwExit
  /\ UNCHANGED <<vmVars, last, protVars, ioVars>>

CpuBind ==
  /\ \E c \in Ctxs : Bind(c)
  /\ UNCHANGED <<vmVars, last, protVars, ioVars>>

CpuSetWriteLock ==
  /\ \E lock \in BOOLEAN : SetWriteLock(lock)
  /\ UNCHANGED <<vmVars, last, protVars, ioVars>>

CpuPreempt ==
  /\ \E c \in Ctxs : Preempt(c)
  /\ UNCHANGED <<vmVars, last, protVars, ioVars>>

CpuPanic ==
  /\ Panic
  /\ UNCHANGED <<vmVars, last, protVars, ioVars>>

NextSwitch ==
  \/ CpuSwitchEnter
  \/ CpuSwitchExit
  \/ CpuWlwEnter
  \/ CpuWlwExit
  \/ CpuBind
  \/ CpuSetWriteLock
  \/ CpuPreempt
  \/ CpuPanic

SpecSwitch == InitSwitch /\ [][NextSwitch]_vars

\* ------------------------------------------------------------------------
\* Properties of switch and write_lock_wrap
\* ------------------------------------------------------------------------

\* C1: when switch(vmem, f) returns and f has not changed the bound context,
\* the context bound before the call is bound again (cr3 has the value it had
\* before the call), on the fast path and on the other path.
C1_SwitchRestores ==
  (exitRec.op = "switch" /\ ~exitRec.dirty) => cr3 = exitRec.before.cr3

\* A top-level switch to a context that was not bound has returned
C1_Witness ==
  /\ exitRec.op = "switch"
  /\ ~exitRec.dirty
  /\ ~exitRec.fast
  /\ exitRec.vmem # exitRec.before.cr3
  /\ cr3 = exitRec.before.cr3
  /\ stack = <<>>

\* A switch to the bound context has returned
C1_WitnessFast ==
  /\ exitRec.op = "switch"
  /\ ~exitRec.dirty
  /\ exitRec.fast
  /\ cr3 = exitRec.vmem

\* C2 as stated: however write_lock_wrap(f) is left (f returns, or f ends
\* abruptly), the write lock has the value it had before the call.
C2_WriteLockRestoredOnEveryExit ==
  /\ exitRec.op = "write_lock_wrap" =>
       is_write_locked(cr0) = is_write_locked(exitRec.before.cr0)
  /\ exitRec.op = "panic" =>
       \A i \in 1..Len(exitRec.frames) :
         exitRec.frames[i].fn = "write_lock_wrap" =>
           is_write_locked(cr0) = is_write_locked(exitRec.frames[i].before.cr0)

\* The part of C2 the code keeps: when f returns, the write lock has the
\* value it had before the call, whatever f did to it.
C2_WriteLockRestoredOnReturn ==
  exitRec.op = "write_lock_wrap" =>
    is_write_locked(cr0) = is_write_locked(exitRec.before.cr0)


\* ------------------------------------------------------------------------
\* Specification of protect_kernel over the images of the kernel
\* ------------------------------------------------------------------------

\* Sizes of the sections: empty, less than a page, a page, more than a page
SectionSizes == {0, 1, PAGE_SIZE, PAGE_SIZE + 1}

\* What the sections of an image differ in: writable or not, alignment, size,
\* address given in the kernel region or as the physical address
SectionKinds ==
  [write : BOOLEAN, align : {1, PAGE_SIZE}, size : SectionSizes, high : BOOLEAN]

\* Number of pages the first n sections take; each section starts on a page
\* of its own, as the link script places them
RECURSIVE PagesBefore(_, _)
PagesBefore(kinds, n) ==
  IF n = 0 THEN 0
  ELSE PagesBefore(kinds, n - 1) + ceil_div(kinds[n].size, PAGE_SIZE)

\* The header of section i of the image
SectionHeader(kinds, i) ==
  [sh_flags |-> IF kinds[i].write THEN {SHF_WRITE, "SHF_ALLOC"} ELSE {"SHF_ALLOC"},
   sh_addralign |-> kinds[i].align,
   sh_addr |-> (IF kinds[i].high THEN PROCESS_END ELSE 0)
                 + PagesBefore(kinds, i - 1) * PAGE_SIZE,
   sh_size |-> kinds[i].size]

InitProtect ==
  /\ live = {}
  /\ vmems = [c \in Ctxs |-> EmptyTable]
  /\ last = NoCall
  /\ InitCpu
  /\ calls = <<>>
  /\ \E kinds \in [1..NumSections -> SectionKinds] :
       /\ PagesBefore(kinds, NumSections) <= KernPages
       /\ sections = [i \in 1..NumSections |-> SectionHeader(kinds, i)]
  /\ InitIo

ProtNew ==
  /\ \E backendOk, boxOk \in BOOLEAN : new("A", backendOk, boxOk)
  /\ UNCHANGED <<cpuVars, protVars, ioVars>>

ProtProtectKernel ==
  /\ \E sec \in 0..NumSections : \E page \in 0..(IF sec = 0 THEN 0 ELSE MaxRange - 1) :
       ProtectKernel("A", [sec |-> sec, page |-> page])
  /\ UNCHANGED <<cpuVars, ioVars>>

ProtResume ==
  /\ Resume
  /\ UNCHANGED <<cpuVars, protVars, ioVars>>

NextProtect ==
  \/ ProtNew
  \/ ProtProtectKernel
  \/ ProtResume

SpecProtect == InitProtect /\ [][NextProtect]_vars

\* ------------------------------------------------------------------------
\* Properties of protect_kernel
\* ------------------------------------------------------------------------

\* The section is not writable and is aligned on a page
Protectable(section) ==
  SHF_WRITE \notin section.sh_flags /\ section.sh_addralign = PAGE_SIZE

\* The number of pages that cover size bytes
PagesCovering(size) ==
  CHOOSE n \in 0..(size + 1) :
    n * PAGE_SIZE >= size /\ (n > 0 => (n - 1) * PAGE_SIZE < size)

\* The pages of the kernel region a section lies on
SectionPages(section) ==
  { v \in KernVirt :
      /\ v + PAGE_SIZE > kern_to_virt(section.sh_addr)
      /\ v < kern_to_virt(section.sh_addr) + section.sh_size }

\* The map_range calls the claim expects: one for each protectable section, in
\* the order of the sections
RECURSIVE ExpectedCalls(_)
ExpectedCalls(n) ==
  IF n = 0 THEN <<>>
  ELSE IF Protectable(sections[n])
    THEN Append(ExpectedCalls(n - 1),
                [phys |-> kern_to_phys(sections[n].sh_addr),
                 virt |-> kern_to_virt(sections[n].sh_addr),
                 pages |-> PagesCovering(sections[n].sh_size),
                 flags |-> {FLAG_USER}])
    ELSE ExpectedCalls(n - 1)

\* C10: protect_kernel calls map_range, with FLAG_USER alone, exactly for the
\* sections that are not writable and whose alignment is PAGE_SIZE, over
\* ceil(size / PAGE_SIZE) pages each; the writable and the misaligned sections
\* are skipped without error and their pages keep their entries.
C10_ProtectsExactlyReadOnlyAligned ==
  (last.op = "protect_kernel" /\ last.ok) =>
    /\ calls = ExpectedCalls(Len(sections))
    /\ \A i \in 1..Len(sections) :
         IF Protectable(sections[i])
           THEN \A v \in SectionPages(sections[i]) :
                  Post[v] = Entry(v - PROCESS_END, {FLAG_USER})
           ELSE \A v \in SectionPages(sections[i]) : Post[v] = last.pre[v]

\* protect_kernel returned Ok on an image with a writable section and a
\* read-only aligned one of one page, and remapped the page of the latter only
C10_Witness ==
  /\ last.op = "protect_kernel"
  /\ last.ok
  /\ Len(calls) = 1
  /\ calls[1].pages = 1
  /\ \E i, j \in 1..Len(sections) :
       /\ SHF_WRITE \in sections[i].sh_flags
       /\ sections[i].sh_addralign = PAGE_SIZE
       /\ SectionPages(sections[i]) # {}
       /\ \A v \in SectionPages(sections[i]) : Post[v] = last.pre[v]
       /\ Protectable(sections[j])
       /\ \A v \in SectionPages(sections[j]) : FLAG_USER \in Post[v].flags

\* The section and page at which the allocator was set to fail did fail a
\* map_range of the protect_kernel that has just returned
FailedSection ==
  /\ last.pages >= 1
  /\ last.pages <= Len(sections)
  /\ Protectable(sections[last.pages])
  /\ last.failAt < PagesCovering(sections[last.pages].sh_size)

\* The pages of section i, in the order of their addresses, from the n-th on
\* (n = 0: all of them)
SectionPagesFrom(i, n) ==
  { v \in SectionPages(sections[i]) :
      v >= kern_to_virt(sections[i].sh_addr) + n * PAGE_SIZE }

\* C11: when the map_range of a section fails, protect_kernel stops there: it
\* returns the error, no later section is remapped, the sections before it
\* stay protected (and the failing one up to the failing page); when no
\* map_range fails, protect_kernel returns Ok.
C11_ProtectStopsAtFailure ==
  (last.op = "protect_kernel") =>
    /\ last.ok = ~FailedSection
    /\ FailedSection =>
         /\ calls = ExpectedCalls(last.pages)
         /\ \A i \in 1..Len(sections) : \A v \in SectionPages(sections[i]) :
              IF Protectable(sections[i]) /\
                 (i < last.pages \/ (i = last.pages /\ v \notin SectionPagesFrom(i, last.failAt)))
                THEN Post[v] = Entry(v - PROCESS_END, {FLAG_USER})
                ELSE Post[v] = last.pre[v]

\* protect_kernel failed in the first section, after its first page, and the
\* second section, which it would have protected, is as new() left it
C11_Witness ==
  /\ last.op = "protect_kernel"
  /\ ~last.ok
  /\ last.pages = 1
  /\ last.failAt = 1
  /\ Len(calls) = 1
  /\ FLAG_USER \in Post[PROCESS_END].flags
  /\ Protectable(sections[2])
  /\ SectionPages(sections[2]) # {}
  /\ \A v \in SectionPages(sections[2]) : Post[v] = X86VMem_new[v]

\* protect_kernel failed in the second section and the first stays protected
C11_WitnessPrefix ==
  /\ last.op = "protect_kernel"
  /\ ~last.ok
  /\ last.pages = 2
  /\ Len(calls) = 2
  /\ SectionPages(sections[1]) # {}
  /\ \A v \in SectionPages(sections[1]) : Post[v].flags = {FLAG_USER}

\* The contexts for which is_bound() is true
BoundCtxs == { c \in Ctxs : is_bound(c) }

\* C12: at every instant exactly one context is bound, the one most recently
\* bound (by bind, in switch or not) or restored (by switch); no other step
\* changes which one it is.
C12_ExactlyOneBound ==
  /\ BoundCtxs = {bound}
  /\ Cardinality(BoundCtxs) = 1

\* The closure of a switch nested in the closure of another switch is
\* running, each switch having bound another context
C12_Witness ==
  /\ Len(stack) = 2
  /\ \A i \in 1..2 : stack[i].fn = "switch" /\ ~stack[i].fast
  /\ stack[1].vmem # stack[2].vmem
  /\ BoundCtxs = {stack[2].vmem}

\* A call of switch is running: its closure, or a call nested in it
InSwitch == \E i \in 1..Len(stack) : stack[i].fn = "switch"

\* C13: while a call of switch runs (from its is_bound check to the restore of
\* the previous context) interruptions are disabled, so no scheduler
\* preemption can take place; when switch returns, the interrupt flag has the
\* value it had before the call.
C13_InterruptsOffDuringSwitch ==
  /\ InSwitch => (~intEnabled /\ ~ENABLED CpuPreempt)
  /\ exitRec.op = "switch" => intEnabled = exitRec.before.int

\* A switch called with interruptions enabled, which bound another context,
\* has returned and interruptions are enabled again
C13_Witness ==
  /\ exitRec.op = "switch"
  /\ ~exitRec.fast
  /\ exitRec.before.int
  /\ intEnabled
  /\ stack = <<>>

\* The closure of a switch called with interruptions enabled is running
C13_WitnessClosure ==
  /\ Len(stack) = 1
  /\ Top.fn = "switch"
  /\ Top.before.int
  /\ ~intEnabled

\* ------------------------------------------------------------------------
\* Specification of try_clone: a context, its clone, and calls on both
\* ------------------------------------------------------------------------

InitClone ==
  /\ live = {CloneSrc}
  /\ vmems = [c \in Ctxs |-> IF c = CloneSrc THEN X86VMem_new ELSE EmptyTable]
  /\ last = NoCall
  /\ InitCpu
  /\ InitProt
  /\ InitIo

CloneMap ==
  /\ \E c \in live, p \in PhysIn, v \in UserVirt, allocOk \in BOOLEAN :
       Map(c, p, v, {}, allocOk)
  /\ UNCHANGED <<cpuVars, protVars, ioVars>>

CloneUnmap ==
  /\ \E c \in live, v \in UserVirt, allocOk \in BOOLEAN : Unmap(c, v, allocOk)
  /\ UNCHANGED <<cpuVars, protVars, ioVars>>

CloneTryClone ==
  /\ \E backendOk, boxOk \in BOOLEAN : TryClone(CloneSrc, CloneDst, backendOk, boxOk)
  /\ UNCHANGED <<cpuVars, protVars, ioVars>>

CloneResume ==
  /\ Resume
  /\ UNCHANGED <<cpuVars, protVars, ioVars>>

NextClone ==
  \/ CloneMap
  \/ CloneUnmap
  \/ CloneTryClone
  \/ CloneResume

SpecClone == InitClone /\ [][NextClone]_vars

\* ------------------------------------------------------------------------
\* Properties of try_clone
\* ------------------------------------------------------------------------

\* A try_clone that has just returned Ok: the clone translates every address
\* as the original, which is unchanged
CloneEquivalent ==
  (last.op = "try_clone" /\ last.ok) =>
    /\ CloneDst \in live
    /\ \A a \in Addrs :
         translate(vmems[CloneDst], a) = translate(vmems[CloneSrc], a)
    /\ vmems[CloneSrc] = last.pre

\* A try_clone returns Err exactly when an allocation failed, and then there
\* is no clone, nor anything of it, and the original is unchanged
CloneAllOrNothing ==
  (last.op = "try_clone") =>
    /\ last.ok = (last.failAt = 0)
    /\ ~last.ok =>
         /\ CloneDst \notin live
         /\ vmems[CloneDst] = EmptyTable
         /\ vmems[CloneSrc] = last.pre

\* A step in which a map or an unmap on a context returns leaves the table of
\* every other context as it was
CloneIndependentStep ==
  (last'.op \in {"map", "unmap"} /\ last.op = "none") =>
    \A d \in Ctxs : d # last'.ctx => vmems'[d] = vmems[d]

\* C14: try_clone is all-or-nothing: on success the clone translates every
\* address as the original and later map / unmap calls on either context
\* leave the other's translations unchanged; on an allocation failure (of
\* the backend's copy or of the Box) it returns Err, no partial clone
\* remains and the original is unchanged.
C14_CloneAllOrNothing ==
  /\ [](CloneEquivalent /\ CloneAllOrNothing)
  /\ [][CloneIndependentStep]_vars

\* After a try_clone that returned Ok, a map on the clone has returned Ok and
\* the original still has the page unmapped
C14_Witness ==
  /\ CloneDst \in live
  /\ last.op = "map"
  /\ last.ok
  /\ last.ctx = CloneDst
  /\ translate(vmems[CloneDst], last.virt) = last.phys
  /\ translate(vmems[CloneSrc], last.virt) = None

\* A try_clone failed on the allocation of the Box while the original had a
\* user page mapped
C14_WitnessBoxFails ==
  /\ last.op = "try_clone"
  /\ ~last.ok
  /\ last.failAt = 2
  /\ \E v \in UserVirt : is_mapped(vmems[CloneSrc], v)

\* The call of frame i has not returned after the step: its frame is still on
\* the stack, or the kernel has stopped inside it
NotReturned(i) == Len(stack') >= i \/ halted'

\* C15: as long as the closure of a switch has not returned, interruptions
\* stay disabled and the context of the switch stays the bound one while the
\* closure itself runs: no step other than the return of the closure enables
\* interruptions again or brings the previous context back.
C15_NoCancellation ==
  [][\A i \in 1..Len(stack) :
       (stack[i].fn = "switch" /\ NotReturned(i)) =>
         /\ ~intEnabled'
         /\ (Len(stack') = i /\ ~stack'[i].dirty) => cr3' = stack[i].vmem
         /\ halted' => cr3' = cr3]_vars

\* The kernel has stopped in the closure of a switch that was called with
\* interruptions enabled: they are disabled, and the context of the switch is
\* bound, not the previous one
C15_Witness ==
  /\ halted
  /\ exitRec.op = "panic"
  /\ Len(exitRec.frames) = 1
  /\ exitRec.frames[1].fn = "switch"
  /\ ~exitRec.frames[1].dirty
  /\ exitRec.frames[1].before.int
  /\ ~intEnabled
  /\ cr3 = exitRec.frames[1].vmem
  /\ cr3 # exitRec.frames[1].before.cr3

\* The step is the start of a write_lock_wrap: its closure is about to run
WlwStarts ==
  /\ Len(stack') = Len(stack) + 1
  /\ stack'[Len(stack')].fn = "write_lock_wrap"

\* C16: when the closure of write_lock_wrap starts, the write lock is
\* disabled whatever it was before the call; and no step, set_write_lock
\* among them, changes a bit of cr0 other than the write-protect bit 16.
C16_ClosureStartsUnlocked ==
  [][/\ WlwStarts => ~is_write_locked(cr0')
     /\ cr0' \ {WP_BIT} = cr0 \ {WP_BIT}]_vars

\* The closure of a write_lock_wrap called with the write lock set starts:
\* the lock is cleared and the other bits of cr0 are as before
C16_Witness ==
  /\ Len(stack) = 1
  /\ Top.fn = "write_lock_wrap"
  /\ is_write_locked(Top.before.cr0)
  /\ ~is_write_locked(cr0)
  /\ cr0 = Top.before.cr0 \ {WP_BIT}
  /\ cr0 # {}

\* The step is the start of a switch: its closure is about to run
SwitchStarts ==
  /\ Len(stack') = Len(stack) + 1
  /\ stack'[Len(stack')].fn = "switch"

\* The step is the return of a switch
SwitchReturns ==
  /\ Len(stack') = Len(stack) - 1
  /\ exitRec'.op = "switch"

\* C17: in every call switch(vmem, f), f is called exactly once, vmem is the
\* bound context when f starts, and the value of the call is the value f
\* returned; on the fast path (vmem already bound) the call binds nothing and
\* writes cr3 neither before nor after f.
C17_SwitchRunsClosureOnce ==
  /\ [](/\ \A i \in 1..Len(stack) :
             stack[i].fn = "switch" => stack[i].calls = 1
        /\ exitRec.op = "switch" =>
             /\ exitRec.calls = 1
             /\ exitRec.fret \in Values
             /\ exitRec.ret = exitRec.fret
             /\ exitRec.fast => exitRec.writes = 0)
  /\ [][/\ SwitchStarts =>
             /\ cr3' = stack'[Len(stack')].vmem
             /\ stack'[Len(stack')].fast =>
                  /\ cr3' = cr3
                  /\ bound' = bound
                  /\ stack'[Len(stack')].writes = 0
        /\ (SwitchReturns /\ exitRec'.fast) => (cr3' = cr3 /\ bound' = bound)]_vars

\* A switch to a context that was not bound has returned the value of its
\* closure, which ran once under that context
C17_Witness ==
  /\ exitRec.op = "switch"
  /\ ~exitRec.fast
  /\ exitRec.vmem # exitRec.before.cr3
  /\ exitRec.calls = 1
  /\ exitRec.ret = "v"
  /\ exitRec.writes > 0

\* The closure of a switch to the bound context runs: nothing was written
C17_WitnessFast ==
  /\ stack # <<>>
  /\ Top.fn = "switch"
  /\ Top.fast
  /\ Top.writes = 0
  /\ exitRec = NoExit
  /\ cr3 = Top.vmem
  /\ cr3 = Top.before.cr3

\* The positions of the calls of switch in progress, outermost first
SwitchFrames == {i \in 1..Len(stack) : stack[i].fn = "switch"}

\* The innermost call of switch in progress (0: none)
InnermostSwitch ==
  IF SwitchFrames = {} THEN 0
  ELSE CHOOSE i \in SwitchFrames : \A j \in SwitchFrames : j <= i

\* The call of switch in progress that encloses the one at position i (0: none)
EnclosingSwitch(i) ==
  IF {j \in SwitchFrames : j < i} = {} THEN 0
  ELSE CHOOSE j \in SwitchFrames : j < i /\ \A k \in SwitchFrames : k < i => k <= j

\* C18: nested calls of switch restore the contexts last in, first out, at
\* every depth and for every choice of contexts, as long as no closure binds
\* a context itself: the context of the innermost call in progress is the
\* bound one (during its closure, and again after a call nested in it has
\* returned), each call has found bound the context of the call that encloses
\* it, and a call that returns leaves bound the context it found.
C18_NestedSwitchLifo ==
  [](/\ (InnermostSwitch # 0 /\ ~stack[InnermostSwitch].dirty) =>
          cr3 = stack[InnermostSwitch].vmem
     /\ \A i \in SwitchFrames :
          (EnclosingSwitch(i) # 0 /\ ~stack[EnclosingSwitch(i)].dirty) =>
             stack[i].before.cr3 = stack[EnclosingSwitch(i)].vmem
     /\ (exitRec.op = "switch" /\ ~exitRec.dirty) =>
          /\ cr3 = exitRec.before.cr3
          /\ bound = exitRec.before.cr3)

\* A switch nested in the closure of another has returned, all three contexts
\* differ and both calls have bound theirs: the context of the outer call is
\* bound again
C18_Witness ==
  /\ Len(stack) = 1
  /\ Top.fn = "switch"
  /\ ~Top.fast
  /\ ~Top.dirty
  /\ exitRec.op = "switch"
  /\ ~exitRec.fast
  /\ exitRec.before.cr3 = Top.vmem
  /\ exitRec.vmem # Top.vmem
  /\ exitRec.vmem # Top.before.cr3
  /\ Top.vmem # Top.before.cr3
  /\ cr3 = Top.vmem

\* The closure of the inner call runs, under the third context
C18_WitnessInner ==
  /\ Len(stack) = 2
  /\ stack[1].fn = "switch"
  /\ stack[2].fn = "switch"
  /\ ~stack[1].fast
  /\ ~stack[2].fast
  /\ ~stack[2].dirty
  /\ stack[2].vmem # stack[1].before.cr3
  /\ cr3 = stack[2].vmem

\* ------------------------------------------------------------------------
\* The munmap system call (src/src/syscall/munmap.rs)
\* ------------------------------------------------------------------------

\* The number of values of usize (2^32 in the kernel), scaled as the addresses
USIZE_RANGE == 256

\* core::intrinsics::wrapping_add on usize
wrapping_add(a, b) == (a + b) % USIZE_RANGE

\* math::ceil_division(n0, n1): the quotient, plus one when there is a rest
ceil_division(n0, n1) == IF n0 % n1 # 0 THEN (n0 \div n1) + 1 ELSE n0 \div n1

\* pages * memory::PAGE_SIZE on usize, in a build without overflow checks
wrapping_mul(a, b) == (a * b) % USIZE_RANGE

\* The context of the current process
ProcCtx == "A"

\* errno::EINVAL
EINVAL == "EINVAL"

\* The page-aligned addresses MemSpace::unmap(addr, pages) is asked to unmap
UnmapPages(addr, pages) ==
  { (addr + k * PAGE_SIZE) % USIZE_RANGE : k \in 0..(pages - 1) }

\* MemSpace::unmap(addr, pages), on the page table of the process: the pages
\* of the range are unmapped, unless an allocation fails
MemSpace_unmap(pt, addr, pages, allocOk) ==
  IF ~allocOk
    THEN Err(pt)
    ELSE Ok([v \in VPages |->
              IF v \in UnmapPages(addr, pages) THEN Unmapped ELSE pt[v]])

\* What a call of munmap did: its value (Ok, an errno, or a panic), whether
\* it called MemSpace::unmap and with which arguments, and the page table
SysRet(ret, called, addr, pages, pt) ==
  [ret |-> ret, called |-> called, virt |-> addr, pages |-> pages, pt |-> pt]

\* munmap, with addr = regs.ebx and length = regs.ecx.  The product
\* pages * PAGE_SIZE panics when it overflows in a build with overflow checks
\* and wraps in a build without them.
munmap(pt, ebx, ecx, overflowChecks, allocOk) ==
  LET addr   == down_align(ebx)
      pages  == ceil_division(ecx, PAGE_SIZE)
      length == wrapping_mul(pages, PAGE_SIZE)
      end    == wrapping_add(addr, length)
  IN  IF overflowChecks /\ pages * PAGE_SIZE >= USIZE_RANGE
        THEN SysRet("panic", FALSE, addr, pages, pt)
      ELSE IF end < addr
        THEN SysRet(EINVAL, FALSE, addr, pages, pt)
      ELSE IF addr >= PROCESS_END \/ end > PROCESS_END
        THEN SysRet(EINVAL, FALSE, addr, pages, pt)
      ELSE LET r == MemSpace_unmap(pt, addr, pages, allocOk)
           IN  SysRet(IF r.ok THEN "Ok" ELSE "ENOMEM", TRUE, addr, pages, r.pt)

\* The record of a call of munmap that has returned (or panicked)
SysCall(ebx, ecx, overflowChecks, r, pre) ==
  [op |-> "munmap", ctx |-> ProcCtx, addr |-> ebx, length |-> ecx,
   checks |-> overflowChecks, ret |-> r.ret, called |-> r.called,
   virt |-> r.virt, pages |-> r.pages, ok |-> r.ret = "Ok", pre |-> pre]

\* A call of munmap by the current process
Munmap(ebx, ecx, overflowChecks, allocOk) ==
  /\ Idle
  /\ Running
  /\ ProcCtx \in live
  /\ LET r == munmap(vmems[ProcCtx], ebx, ecx, overflowChecks, allocOk)
     IN  /\ vmems' = [vmems EXCEPT ![ProcCtx] = r.pt]
         /\ last' = SysCall(ebx, ecx, overflowChecks, r, vmems[ProcCtx])
         /\ halted' = (r.ret = "panic")
  /\ UNCHANGED <<live, cr3, cr0, intEnabled, stack, exitRec, bound>>

\* The addresses munmap is called with: every offset in the observed user
\* pages, the first page, the last page below PROCESS_END, the first page of
\* the kernel region and the last page of the address space
MunmapAddrs ==
  { v + o : v \in UserVirt \cup {0, PROCESS_END - PAGE_SIZE, PROCESS_END,
                                 USIZE_RANGE - PAGE_SIZE},
            o \in 0..(PAGE_SIZE - 1) }

\* The lengths munmap is called with: up to MaxRange pages, the lengths that
\* reach PROCESS_END from the observed user pages or pass it, and the largest
\* lengths
MunmapLengths ==
  (0..(MaxRange * PAGE_SIZE))
    \cup { PROCESS_END - v + d : v \in UserVirt, d \in {0, 1} }
    \cup { USIZE_RANGE - k : k \in 1..(PAGE_SIZE + 1) }

InitMunmap ==
  /\ live = {ProcCtx}
  /\ vmems = [c \in Ctxs |-> IF c = ProcCtx THEN X86VMem_new ELSE EmptyTable]
  /\ last = NoCall
  /\ InitCpu
  /\ InitProt
  /\ InitIo

\* The process is given memory at a user address
SysMap ==
  /\ Running
  /\ \E p \in PhysIn, v \in UserVirt, allocOk \in BOOLEAN :
       Map(ProcCtx, p, v, {FLAG_WRITE, FLAG_USER}, allocOk)
  /\ UNCHANGED <<cpuVars, protVars, ioVars>>

SysMunmap ==
  /\ \E ebx \in MunmapAddrs, ecx \in MunmapLengths :
       \E overflowChecks, allocOk \in BOOLEAN :
         Munmap(ebx, ecx, overflowChecks, allocOk)
  /\ UNCHANGED <<protVars, ioVars>>

SysResume ==
  /\ Running
  /\ Resume
  /\ UNCHANGED <<cpuVars, protVars, ioVars>>

NextMunmap ==
  \/ SysMap
  \/ SysMunmap
  \/ SysResume

SpecMunmap == InitMunmap /\ [][NextMunmap]_vars

\* ------------------------------------------------------------------------
\* Properties of munmap
\* ------------------------------------------------------------------------

\* munmap has just returned or panicked
MunmapDone == last.op = "munmap"

\* C19 as stated: munmap never unmaps kernel memory.  For every addr and
\* length, with pages * PAGE_SIZE and addr + length computed modulo the range
\* of usize, either munmap ends without calling unmap, or the range it passes
\* to MemSpace::unmap lies below PROCESS_END without wrapping around.
C19_MunmapNeverUnmapsKernel ==
  MunmapDone =>
    IF last.called
      THEN /\ last.virt + last.pages * PAGE_SIZE <= PROCESS_END
           /\ \A p \in UnmapPages(last.virt, last.pages) : p + PAGE_SIZE <= PROCESS_END
      ELSE last.ret \in {EINVAL, "panic"}

\* What holds of munmap: when the product pages * PAGE_SIZE does not overflow,
\* the range passed to MemSpace::unmap lies below PROCESS_END, and the
\* observed pages of the kernel region keep their mapping
C19_BelowProcessEndWithoutOverflow ==
  (MunmapDone /\ last.pages * PAGE_SIZE < USIZE_RANGE) =>
    IF last.called
      THEN /\ last.virt + last.pages * PAGE_SIZE <= PROCESS_END
           /\ \A v \in KernVirt : vmems[ProcCtx][v] = last.pre[v]
      ELSE last.ret = EINVAL

\* The page-aligned addresses of the pages that intersect [addr, addr + length)
RequestedPages(addr, length) ==
  { p \in 0..(USIZE_RANGE - 1) :
      p % PAGE_SIZE = 0 /\ p < addr + length /\ p + PAGE_SIZE > addr }

\* C20 as stated: when munmap(addr, length) returns Ok with length > 0, every
\* page that intersects [addr, addr + length) has been unmapped, for addr
\* aligned on a page or not.
C20_MunmapCoversRequest ==
  (MunmapDone /\ last.ret = "Ok" /\ last.length > 0) =>
    \A p \in RequestedPages(last.addr, last.length) :
      /\ p \in UnmapPages(last.virt, last.pages)
      /\ p \in VPages => ~is_mapped(vmems[ProcCtx], p)

\* What holds of munmap: the pages that intersect [addr, addr + length) have
\* been unmapped when addr is aligned on a page
C20_AlignedRequestCovered ==
  (MunmapDone /\ last.ret = "Ok" /\ last.length > 0
     /\ last.addr % PAGE_SIZE = 0) =>
    \A p \in RequestedPages(last.addr, last.length) :
      /\ p \in UnmapPages(last.virt, last.pages)
      /\ p \in VPages => ~is_mapped(vmems[ProcCtx], p)

\* ------------------------------------------------------------------------
\* The readv system call (src/src/syscall/readv.rs) on an open file
\* (src/src/file/open_file.rs)
\* ------------------------------------------------------------------------

\* i32::MAX (2^31 - 1 in the kernel), scaled as usize: half of its range
I32_MAX == 127

\* limits::IOV_MAX (1024 in the kernel), scaled
IOV_MAX == 2

\* Largest offset of the open file when do_readv is called
MaxOffset == 1

\* Largest number of passes of the loop of do_readv
MaxPasses == 2

\* open_file::O_NONBLOCK and O_WRONLY, as the names of the bits of flags
O_NONBLOCK == "O_NONBLOCK"

O_WRONLY == "O_WRONLY"

\* io::POLLIN | io::POLLERR, as the set of the bits
POLLIN == "POLLIN"

POLLERR == "POLLERR"

\* The file descriptors of the process: descriptor 0 is the open file
Fds == {0}

\* The FileContent of the file behind the open file
Contents == {"Regular", "Directory", "Fifo"}

\* usize subtraction and addition, and the cast of a usize to i32
usize_sub(a, b) == (a - b + USIZE_RANGE) % USIZE_RANGE

usize_add(a, b) == (a + b) % USIZE_RANGE

as_i32(n) == IF n > I32_MAX THEN n - USIZE_RANGE ELSE n

min(a, b) == IF a <= b THEN a ELSE b

\* What happens at one iovec: the user pointer is not valid (fault), it
\* gives no slice (noslice), the file fails (err), or the file fills the
\* slice (all), half of it (part), or nothing (zero), and may report the
\* end of the file
Outcomes ==
  {"fault", "noslice", "err", "all", "part", "part_eof", "zero", "zero_eof"}

\* File::read(curr_off, buf) with buf of l bytes: (len, eof), len <= l
file_read(out, l) ==
  [len |-> IF out = "all" THEN l
           ELSE IF out \in {"part", "part_eof"} THEN (l + 1) \div 2
           ELSE 0,
   eof |-> out \in {"part_eof", "zero_eof"}]

\* OpenFile::can_read
can_read(of) == O_WRONLY \notin of.flags

\* Result<(u64, bool), Errno> of OpenFile::read, and the open file after it
ReadOk(len, eof, of) == [ok |-> TRUE, errno |-> "", len |-> len, eof |-> eof, of |-> of]

ReadErr(e, of) == [ok |-> FALSE, errno |-> e, len |-> 0, eof |-> FALSE, of |-> of]

\* OpenFile::read(_off, buf) with buf of l bytes
OpenFile_read(of, l, out) ==
  IF ~can_read(of) THEN ReadErr("EINVAL", of)
  ELSE IF of.content = "Directory" THEN ReadErr("EISDIR", of)
  ELSE IF out = "err" THEN ReadErr("EIO", of)
  ELSE LET r == file_read(out, l)
       IN  ReadOk(r.len, r.eof, [of EXCEPT !.curr_off = @ + r.len])

\* EResult<i32>
RetOk(n) == [kind |-> "Ok", errno |-> "", val |-> n]

RetErr(e) == [kind |-> "Err", errno |-> e, val |-> 0]

\* The state of the helper read when it starts: total_len is the local of
\* the source; sum is the number of bytes the file has given, peak the
\* largest value total_len has had, reads the iovecs the file was read for
ReadStart(of, buf) ==
  [ret |-> NoRet, total_len |-> 0, sum |-> 0, peak |-> 0, reads |-> <<>>,
   of |-> of, ubuf |-> buf]

\* Faulty variant: the size is not limited
read_size_unlimited(iov_len, total_len) == iov_len

\* The bytes to read at an iovec of iov_len bytes: min(iov_len, i32::MAX - total_len)
read_size(iov_len, total_len) == min(iov_len, usize_sub(I32_MAX, total_len))

\* The loop of the helper read from iovec i on
RECURSIVE read_loop(_, _, _, _)
read_loop(iov, outs, i, st) ==
  IF i > Len(iov)
    THEN [st EXCEPT !.ret = RetOk(as_i32(st.total_len))]
  ELSE IF iov[i] = 0
    THEN read_loop(iov, outs, i + 1, st)
  ELSE IF outs[i] = "fault"
    THEN [st EXCEPT !.ret = RetErr("EFAULT")]
  ELSE IF outs[i] = "noslice"
    THEN read_loop(iov, outs, i + 1, st)
  ELSE
    LET l == read_size(iov[i], st.total_len)
        r == OpenFile_read(st.of, l, outs[i])
        total == usize_add(st.total_len, r.len)
        nx == [st EXCEPT !.total_len = total,
                         !.sum = @ + r.len,
                         !.peak = IF total > @ THEN total ELSE @,
                         !.reads = Append(@, [i |-> i, l |-> l, len |-> r.len, eof |-> r.eof]),
                         !.of = r.of,
                         !.ubuf = [@ EXCEPT ![i] = @ \/ r.len > 0]]
    IN  IF ~r.ok
          THEN [st EXCEPT !.ret = RetErr(r.errno)]
        ELSE IF r.eof
          THEN [nx EXCEPT !.ret = RetOk(as_i32(total))]
        ELSE read_loop(iov, outs, i + 1, nx)

\* The helper read: the iovecs are fetched from the memory of the process
\* (the pointer may be invalid, the copy may not be allocated), then read
read(of, buf, iov, fetch, outs) ==
  IF fetch # "ok"
    THEN [ReadStart(of, buf) EXCEPT !.ret = RetErr(fetch)]
    ELSE read_loop(iov, outs, 1, ReadStart(of, buf))

\* The checks of do_readv before the loop, in the order of the source: the
\* errno of the first that fails, "" when none does
readv_check(fd, iovcnt, offset) ==
  IF fd < 0 THEN "EBADF"
  ELSE IF iovcnt < 0 \/ iovcnt > IOV_MAX THEN "EINVAL"
  ELSE IF fd \notin Fds THEN "EBADF"
  ELSE IF offset.some /\ offset.val < -1 THEN "EINVAL"
  ELSE ""

\* Faulty variant: the file is positioned before the offset is checked
readv_enter_seek(of, offset) ==
  IF offset.some /\ offset.val # -1
    THEN [of EXCEPT !.curr_off = IF offset.val >= 0 THEN offset.val ELSE 0]
    ELSE of

\* The open file when the checks of do_readv are over: untouched
readv_enter(of, offset) == of

\* do_readv, up to the loop: the checks, then (start_off, update_off)
Readv(fd, iov, iovcnt, offset) ==
  /\ rcall.pc = "idle"
  /\ LET e == readv_check(fd, iovcnt, offset)
         call == [rcall EXCEPT !.fd = fd, !.iov = iov, !.iovcnt = iovcnt,
                               !.offset = offset,
                               !.pre = [curr_off |-> ofile.curr_off, ubuf |-> ubuf]]
     IN  IF e # ""
           THEN rcall' = [call EXCEPT !.pc = "done", !.ret = RetErr(e)]
           ELSE rcall' = [call EXCEPT
                            !.pc = "loop",
                            !.start_off = IF offset.some /\ offset.val >= 0
                                            THEN offset.val ELSE ofile.curr_off,
                            !.update_off = ~(offset.some /\ offset.val >= 0)]
  /\ ofile' = readv_enter(ofile, offset)
  /\ UNCHANGED <<ubuf, locks>>

\* The open file when the pass leaves lines 135-140: a read that fails
\* returns at line 135, before the previous offset is restored
pass_restore(rd, update_off, prev_off) ==
  IF rd.ret.kind = "Ok" /\ ~update_off
    THEN [rd.of EXCEPT !.curr_off = prev_off]
    ELSE rd.of

\* A pass of the loop of do_readv, up to the restored offset (lines 127-140):
\* the open file and the memory space are locked, the offset is set to
\* start_off and the iovecs are read
ReadvPass(fetch, outs) ==
  /\ rcall.pc = "loop"
  /\ LET prev_off == ofile.curr_off
         rd == read([ofile EXCEPT !.curr_off = rcall.start_off], ubuf,
                    rcall.iov, fetch, outs)
         pass == [rcall EXCEPT !.flags = ofile.flags, !.prev_off = prev_off,
                               !.passes = @ + 1, !.rd = rd]
     IN  /\ ofile' = pass_restore(rd, rcall.update_off, prev_off)
         /\ ubuf' = rd.ubuf
         /\ IF rd.ret.kind = "Err"
              THEN /\ rcall' = [pass EXCEPT !.pc = "done", !.ret = rd.ret]
                   /\ locks' = {}
              ELSE /\ rcall' = [pass EXCEPT !.pc = "read", !.len = rd.ret.val]
                   /\ locks' = {"open_file", "mem_space"}

\* OpenFile::add_waiting_process(proc, mask): the buffer of a fifo registers
\* the process (or fails); a file that cannot block does nothing
add_waiting_process(of, mask, regOk) ==
  IF of.content = "Fifo"
    THEN IF regOk
           THEN [ok |-> TRUE, of |-> [of EXCEPT !.waiting = @ \cup mask]]
           ELSE [ok |-> FALSE, of |-> of]
    ELSE [ok |-> TRUE, of |-> of]

\* Faulty variant: a pass that read nothing also returns Ok
readv_result_any(len) == TRUE

\* do_readv returns Ok(len) after the pass
readv_result(len) == len > 0

\* Faulty variant: the locks taken in the pass are kept over end_tick
locks_at_end_tick_kept == locks \cup {"proc"}

\* The locks held when scheduler::end_tick is called: the guards of the block
\* of lines 126-153 have been dropped
locks_at_end_tick == {}

\* The rest of the pass (lines 142-156): Ok(len), EAGAIN, or the process is
\* added to those that wait on the file and the block is left
ReadvDecide(regOk) ==
  /\ rcall.pc = "read"
  /\ IF readv_result(rcall.len)
       THEN /\ rcall' = [rcall EXCEPT !.pc = "done", !.ret = RetOk(rcall.len)]
            /\ locks' = {}
            /\ UNCHANGED ofile
     ELSE IF O_NONBLOCK \in rcall.flags
       THEN /\ rcall' = [rcall EXCEPT !.pc = "done", !.ret = RetErr("EAGAIN")]
            /\ locks' = {}
            /\ UNCHANGED ofile
     ELSE LET w == add_waiting_process(ofile, {POLLIN, POLLERR}, regOk)
          IN  /\ ofile' = w.of
              /\ IF w.ok
                   THEN /\ rcall' = [rcall EXCEPT !.pc = "yield"]
                        /\ locks' = locks_at_end_tick
                   ELSE /\ rcall' = [rcall EXCEPT !.pc = "done",
                                                  !.ret = RetErr("ENOMEM")]
                        /\ locks' = {}
  /\ UNCHANGED ubuf

\* scheduler::end_tick returns: the process runs again and the loop goes on
ReadvEndTick ==
  /\ rcall.pc = "yield"
  /\ rcall.passes < MaxPasses
  /\ rcall' = [rcall EXCEPT !.pc = "loop"]
  /\ UNCHANGED <<ofile, ubuf, locks>>

\* The iovec lengths do_readv is called with
IovLens == {0, 1, I32_MAX, USIZE_RANGE - 1}

\* The iovec arrays of n entries
Iovs(n) == [1..n -> IovLens]

\* The offsets do_readv is called with
Offsets64 == {NoneOff} \cup {SomeOff(o) : o \in {-2, -1, 0, MaxOffset + 1}}

InitReadv ==
  /\ live = {}
  /\ vmems = [c \in Ctxs |-> EmptyTable]
  /\ last = NoCall
  /\ InitCpu
  /\ InitProt
  /\ \E flags \in SUBSET {O_NONBLOCK, O_WRONLY}, content \in Contents,
        off \in 0..MaxOffset :
       ofile = [NewOpenFile(flags, content) EXCEPT !.curr_off = off]
  /\ ubuf = [i \in 1..IOV_MAX |-> FALSE]
  /\ locks = {}
  /\ rcall = NoReadv

IoReadv ==
  /\ \E fd \in -1..1, iovcnt \in -1..(IOV_MAX + 1), offset \in Offsets64 :
       \E iov \in Iovs(IF iovcnt < 0 THEN 0 ELSE min(iovcnt, IOV_MAX)) :
         Readv(fd, iov, iovcnt, offset)
  /\ UNCHANGED <<vmVars, last, cpuVars, protVars>>

IoReadvPass ==
  /\ \/ \E outs \in [1..Len(rcall.iov) -> Outcomes] : ReadvPass("ok", outs)
     \/ \E fetch \in {"EFAULT", "ENOMEM"} :
          ReadvPass(fetch, [i \in 1..Len(rcall.iov) |-> "zero"])
  /\ UNCHANGED <<vmVars, last, cpuVars, protVars>>

IoReadvDecide ==
  /\ \E regOk \in BOOLEAN : ReadvDecide(regOk)
  /\ UNCHANGED <<vmVars, last, cpuVars, protVars>>

IoReadvEndTick ==
  /\ ReadvEndTick
  /\ UNCHANGED <<vmVars, last, cpuVars, protVars>>

NextReadv ==
  \/ IoReadv
  \/ IoReadvPass
  \/ IoReadvDecide
  \/ IoReadvEndTick

SpecReadv == InitReadv /\ [][NextReadv]_vars

\* ------------------------------------------------------------------------
\* Properties of readv
\* ------------------------------------------------------------------------

\* A call of do_readv has been made
Called == rcall.pc # "idle"

\* The call has returned the error e before any pass of the loop, and the
\* offset of the open file and the user buffers are as before the call
RejectedWith(e) ==
  /\ rcall.pc = "done"
  /\ rcall.ret = RetErr(e)
  /\ rcall.passes = 0
  /\ rcall.rd = NoRead
  /\ ofile.curr_off = rcall.pre.curr_off
  /\ ofile.waiting = {}
  /\ ubuf = rcall.pre.ubuf

BadIovcnt == rcall.iovcnt < 0 \/ rcall.iovcnt > IOV_MAX

BadOffset == rcall.offset.some /\ rcall.offset.val < -1

\* C21: do_readv rejects invalid arguments before it reads anything, the
\* checks being made in this order: fd < 0 is EBADF, iovcnt < 0 or
\* iovcnt > IOV_MAX is EINVAL, a descriptor that is not in the table of the
\* process is EBADF, an offset below -1 is EINVAL; the offset of the open
\* file and the user buffers are then as they were before the call.
C21_RejectsInvalidArguments ==
  Called =>
    /\ rcall.fd < 0 => RejectedWith("EBADF")
    /\ (rcall.fd >= 0 /\ BadIovcnt) => RejectedWith("EINVAL")
    /\ (rcall.fd >= 0 /\ ~BadIovcnt /\ rcall.fd \notin Fds) => RejectedWith("EBADF")
    /\ (rcall.fd \in Fds /\ ~BadIovcnt /\ BadOffset) => RejectedWith("EINVAL")

\* A call on the open descriptor with an offset of -2 has been rejected, the
\* open file being at an offset that is not 0
C21_Witness ==
  /\ rcall.pc = "done"
  /\ rcall.fd \in Fds
  /\ rcall.iovcnt = IOV_MAX
  /\ rcall.offset = SomeOff(-2)
  /\ rcall.ret = RetErr("EINVAL")
  /\ ofile.curr_off = rcall.pre.curr_off
  /\ ofile.curr_off > 0

\* Calls with a negative descriptor, with too many iovecs and on a
\* descriptor that is not open have been rejected
C21_WitnessFd ==
  /\ rcall.pc = "done"
  /\ rcall.fd < 0
  /\ rcall.ret = RetErr("EBADF")

C21_WitnessIovcnt ==
  /\ rcall.pc = "done"
  /\ rcall.fd \in Fds
  /\ rcall.iovcnt > IOV_MAX
  /\ rcall.ret = RetErr("EINVAL")

C21_WitnessNotOpen ==
  /\ rcall.pc = "done"
  /\ rcall.fd >= 0
  /\ rcall.fd \notin Fds
  /\ rcall.ret = RetErr("EBADF")

\* The call was made with an explicit offset (Some(o), o >= 0)
ExplicitOffset == rcall.offset.some /\ rcall.offset.val >= 0

\* do_readv has returned
Returned == rcall.pc = "done"

\* C22 as stated: with an explicit offset >= 0 the change of the offset is
\* temporary: on every return of do_readv (Ok, EAGAIN, or an error of the
\* read) the offset of the open file is the one it had before the call; with
\* an offset of None or -1 the offset is advanced by the bytes read.
C22_OffsetTemporary ==
  Returned =>
    /\ ExplicitOffset => ofile.curr_off = rcall.pre.curr_off
    /\ (~ExplicitOffset /\ rcall.passes > 0) =>
         ofile.curr_off = rcall.pre.curr_off + rcall.rd.sum

\* What holds of do_readv: the offset is the one before the call on every
\* return but that of a read that failed, after which the offset is start_off
\* plus the bytes read before the failure
C22_OffsetRestoredUnlessReadFails ==
  Returned =>
    /\ (ExplicitOffset /\ rcall.rd.ret.kind # "Err") =>
         ofile.curr_off = rcall.pre.curr_off
    /\ (ExplicitOffset /\ rcall.rd.ret.kind = "Err") =>
         ofile.curr_off = rcall.start_off + rcall.rd.sum
    /\ (~ExplicitOffset /\ rcall.passes > 0) =>
         ofile.curr_off = rcall.pre.curr_off + rcall.rd.sum

\* C23: in the helper read, for iovecs of any lengths, total_len never
\* exceeds i32::MAX at any step, so the value returned as i32 is not negative
\* and is the sum of the bytes read; entries of length zero are not read, and
\* no entry is read after the one at which the file reported its end.
C23_TotalLenWithinI32 ==
  rcall.passes > 0 =>
    LET rd == rcall.rd
    IN  /\ rd.peak <= I32_MAX
        /\ rd.total_len = rd.sum
        /\ rd.ret.kind = "Ok" => (rd.ret.val >= 0 /\ rd.ret.val = rd.sum)
        /\ \A k \in 1..Len(rd.reads) :
             /\ rcall.iov[rd.reads[k].i] # 0
             /\ rd.reads[k].len <= rd.reads[k].l
             /\ rd.reads[k].eof => k = Len(rd.reads)
             /\ k > 1 => rd.reads[k - 1].i < rd.reads[k].i

\* The first iovec is longer than i32::MAX and the file filled what it was
\* handed: the total is i32::MAX, and the second iovec was read with a size
\* of zero
C23_Witness ==
  /\ rcall.passes > 0
  /\ Len(rcall.iov) = 2
  /\ rcall.iov[1] > I32_MAX
  /\ rcall.rd.ret = RetOk(I32_MAX)
  /\ Len(rcall.rd.reads) = 2
  /\ rcall.rd.reads[2].l = 0

\* An entry of length zero was skipped, and the read stopped at the end of
\* the file before the last entry
C23_WitnessSkip ==
  /\ rcall.passes > 0
  /\ Len(rcall.iov) = 2
  /\ rcall.iov[1] = 0
  /\ rcall.rd.ret.kind = "Ok"
  /\ Len(rcall.rd.reads) = 1
  /\ rcall.rd.reads[1].i = 2

C23_WitnessEof ==
  /\ rcall.passes > 0
  /\ Len(rcall.iov) = 2
  /\ rcall.iov[2] # 0
  /\ rcall.rd.ret.kind = "Ok"
  /\ Len(rcall.rd.reads) = 1
  /\ rcall.rd.reads[1].i = 1
  /\ rcall.rd.reads[1].eof
  /\ rcall.rd.reads[1].len > 0

\* The last pass read nothing and the call has gone past it
ZeroPass ==
  /\ rcall.pc \in {"yield", "done"}
  /\ rcall.passes > 0
  /\ rcall.rd.ret = RetOk(0)

NonBlocking == O_NONBLOCK \in ofile.flags

\* The process is among those that wait on the file for POLLIN | POLLERR
Registered == {POLLIN, POLLERR} \subseteq ofile.waiting

\* What C24 says of every file: Ok(n) only with n > 0; after a pass that read
\* nothing, EAGAIN on a file with O_NONBLOCK, whose calls make one pass only
OkPositiveAndNonBlocking ==
  /\ (Returned /\ rcall.ret.kind = "Ok") => rcall.ret.val > 0
  /\ (ZeroPass /\ NonBlocking) =>
       (Returned /\ rcall.ret = RetErr("EAGAIN") /\ locks = {})
  /\ (Called /\ NonBlocking) => (rcall.passes <= 1 /\ rcall.pc # "yield")
  /\ (NonBlocking /\ rcall.passes = 1) => rcall.pc \in {"read", "done"}

C24_WitnessNonBlocking ==
  /\ Returned
  /\ NonBlocking
  /\ rcall.passes = 1
  /\ rcall.ret = RetErr("EAGAIN")
  /\ rcall.iov # <<>>

\* The process yields on a regular file without being registered
C24_WitnessNotRegistered ==
  /\ rcall.pc = "yield"
  /\ ofile.content = "Regular"
  /\ ~Registered

====
